---- MODULE Spec2Model ----
(***************************************************************************)
(* Model of the dynamic line-item extraction pipeline of src/MAIN.PY       *)
(* (class DynamicLineItemProcessor) and of the word filter of              *)
(* src/unnamed/part_000 (OCRBoundingBoxExtractor.process_ocr_data).        *)
(*                                                                         *)
(* Text is modelled as a sequence of one-character strings, so that        *)
(* str.strip, str.lower, the substring test `in`, " ".join and the regular *)
(* expressions are computed character by character as Python computes      *)
(* them.  The recognizer's parallel arrays text/left/top/width/height/conf *)
(* are modelled as one sequence of records with these six fields (entry i  *)
(* of the sequence is index i of every array).                             *)
(***************************************************************************)
EXTENDS Integers, Sequences, FiniteSets, TLC

VARIABLES
    stage,        \* position of the run inside process_invoice_with_dynamic_line_items
    raised,       \* exception that escaped the run ("" when none)
    vendor_type,  \* argument vendor_type of the run
    extraction_result, \* value returned by extract_text_with_coordinates
    table_region, \* result of detect_table_region (NoRegion for None)
    table_words,  \* local table_words of extract_line_items_from_region
    rows,         \* result of group_words_by_rows
    outcomes,     \* what parse_row_to_line_item did for rows[1..Len(outcomes)]
    line_items,   \* local line_items of extract_line_items_from_region
    result,       \* value returned by the run (Pending until it returns)
    ocr_data,     \* part_000: the ocr_data handed to process_ocr_data
    elements,     \* part_000: [returned |-> value returned by process_ocr_data]
    self_vendor_patterns, \* self.vendor_patterns of the processor
    second_region, \* result of a second call of detect_table_region
    other_run,    \* a second run on the same processor (its own locals)
    alone_runs    \* what each of two runs returns when it runs alone

\* what a run does not touch besides its own locals
others == <<second_region, other_run, alone_runs>>

\* the processor's registry, the repeated detection and the second run
extra == <<self_vendor_patterns, others>>

vars == <<stage, raised, vendor_type, extraction_result, table_region,
          table_words, rows, outcomes, line_items, result, ocr_data, elements,
          extra>>

-----------------------------------------------------------------------------
(* Bounds of the model.                                                    *)

\* longest word list drawn from WordPool
MaxWords == 3

\* most words of a row handed directly to the row loop
MaxRowWords == 3

-----------------------------------------------------------------------------
(* Python str operations on sequences of characters.                       *)

UpperChars == <<"A","B","C","D","E","F","G","H","I","J","K","L","M",
                "N","O","P","Q","R","S","T","U","V","W","X","Y","Z">>
LowerChars == <<"a","b","c","d","e","f","g","h","i","j","k","l","m",
                "n","o","p","q","r","s","t","u","v","w","x","y","z">>
DigitChars == {"0","1","2","3","4","5","6","7","8","9"}
Whitespace == {" ", "\t", "\n", "\r"}

\* str.lower on one character
LowerChar(c) ==
    IF \E i \in 1..26 : UpperChars[i] = c
    THEN LowerChars[CHOOSE i \in 1..26 : UpperChars[i] = c]
    ELSE c

\* str.lower
Lower(s) == [i \in 1..Len(s) |-> LowerChar(s[i])]

\* str.strip: drop leading and trailing whitespace
RECURSIVE LStrip(_)
LStrip(s) ==
    IF s # <<>> /\ Head(s) \in Whitespace THEN LStrip(Tail(s)) ELSE s

RECURSIVE RStrip(_)
RStrip(s) ==
    IF s # <<>> /\ s[Len(s)] \in Whitespace
    THEN RStrip(SubSeq(s, 1, Len(s) - 1))
    ELSE s

Strip(s) == RStrip(LStrip(s))

\* needle in hay (substring test)
Contains(hay, needle) ==
    \E i \in 1..(Len(hay) - Len(needle) + 1) :
        SubSeq(hay, i, i + Len(needle) - 1) = needle

\* " ".join(texts)
RECURSIVE Join(_)
Join(texts) ==
    IF texts = <<>> THEN <<>>
    ELSE IF Len(texts) = 1 THEN texts[1]
    ELSE texts[1] \o <<" ">> \o Join(Tail(texts))

\* s.replace('$', '')
RECURSIVE RemoveDollar(_)
RemoveDollar(s) ==
    IF s = <<>> THEN <<>>
    ELSE IF Head(s) = "$" THEN RemoveDollar(Tail(s))
    ELSE <<Head(s)>> \o RemoveDollar(Tail(s))

\* any(keyword.lower() in text.lower() for keyword in keywords)
AnyKeywordIn(keywords, text) ==
    \E k \in 1..Len(keywords) : Contains(Lower(text), Lower(keywords[k]))

-----------------------------------------------------------------------------
(* Python re, for the patterns of this program.  A pattern is the sequence *)
(* of items Python's parser produces for the pattern string: a character   *)
(* set, any character, or an anchor (^ or $), each with a repeat range     *)
(* lo..hi (hi = -1: unbounded) and the flag q telling whether a            *)
(* quantifier (?, +, *, {m,n}) was written after it.                       *)

Lit(c)      == [k |-> "set", cs |-> {c}, lo |-> 1, hi |-> 1, q |-> FALSE]
Set(chars)  == [k |-> "set", cs |-> chars, lo |-> 1, hi |-> 1, q |-> FALSE]
AnyChar     == [k |-> "any", cs |-> {}, lo |-> 1, hi |-> 1, q |-> FALSE]
AtBegin     == [k |-> "bol", cs |-> {}, lo |-> 1, hi |-> 1, q |-> FALSE]
AtEnd       == [k |-> "eol", cs |-> {}, lo |-> 1, hi |-> 1, q |-> FALSE]
Rep(it, lo, hi) == [it EXCEPT !.lo = lo, !.hi = hi, !.q = TRUE]

Backslash == "\\"
Letters   == {UpperChars[i] : i \in 1..26} \cup {LowerChars[i] : i \in 1..26}

\* Compiles for a compiler that accepts a quantifier after an anchor
Compiles_Always(p) == TRUE

\* re.compile: a quantifier written after an anchor is the error
\* "nothing to repeat" (re.error)
Compiles(p) == \A i \in 1..Len(p) : p[i].k \in {"bol", "eol"} => ~p[i].q

\* one character against one item, under re.IGNORECASE
ItemMatches(it, c) ==
    IF it.k = "any" THEN c # "\n"
    ELSE LowerChar(c) \in {LowerChar(d) : d \in it.cs}

\* number of consecutive characters from pos that the item can take (greedy)
RECURSIVE RunLen(_, _, _, _)
RunLen(it, s, pos, n) ==
    IF (it.hi # -1 /\ n >= it.hi) \/ pos + n > Len(s)
    THEN n
    ELSE IF ItemMatches(it, s[pos + n]) THEN RunLen(it, s, pos, n + 1) ELSE n

\* backtracking match of items i.. of p at position pos of s: the position
\* after the match, or 0 when there is no match
RECURSIVE MatchFrom(_, _, _, _)
RECURSIVE TryCount(_, _, _, _, _)
MatchFrom(p, i, s, pos) ==
    IF i > Len(p) THEN pos
    ELSE IF p[i].k = "bol"
         THEN IF pos = 1 THEN MatchFrom(p, i + 1, s, pos) ELSE 0
    ELSE IF p[i].k = "eol"
         THEN IF pos = Len(s) + 1 \/ (pos = Len(s) /\ s[pos] = "\n")
              THEN MatchFrom(p, i + 1, s, pos) ELSE 0
    ELSE TryCount(p, i, s, pos, RunLen(p[i], s, pos, 0))

TryCount(p, i, s, pos, n) ==
    IF n < p[i].lo THEN 0
    ELSE LET r == MatchFrom(p, i + 1, s, pos + n)
         IN  IF r # 0 THEN r ELSE TryCount(p, i, s, pos, n - 1)

\* re.match(p, s) is not None
ReMatch(p, s) == MatchFrom(p, 1, s, 1) # 0

\* re.findall(p, s): the non-overlapping matches, left to right
RECURSIVE FindAllFrom(_, _, _)
FindAllFrom(p, s, pos) ==
    IF pos > Len(s) + 1 THEN <<>>
    ELSE LET e == MatchFrom(p, 1, s, pos)
         IN  IF e = 0 THEN FindAllFrom(p, s, pos + 1)
             ELSE <<SubSeq(s, pos, e - 1)>>
                  \o FindAllFrom(p, s, IF e = pos THEN pos + 1 ELSE e)

ReFindall(p, s) == FindAllFrom(p, s, 1)

-----------------------------------------------------------------------------
(* Keyword strings of the program, as character sequences.                 *)

\* "Item"
K_Item == <<"I","t","e","m">>
\* "Description"
K_Description == <<"D","e","s","c","r","i","p","t","i","o","n">>
\* "Qty"
K_Qty == <<"Q","t","y">>
\* "Price"
K_Price == <<"P","r","i","c","e">>
\* "Total"
K_Total == <<"T","o","t","a","l">>
\* "Subtotal"
K_Subtotal == <<"S","u","b","t","o","t","a","l">>
\* "Tax"
K_Tax == <<"T","a","x">>
\* "Total Due"
K_TotalDue == <<"T","o","t","a","l"," ","D","u","e">>
\* "Part#"
K_PartNo == <<"P","a","r","t","#">>
\* "Unit Cost"
K_UnitCost == <<"U","n","i","t"," ","C","o","s","t">>
\* "Amount"
K_Amount == <<"A","m","o","u","n","t">>
\* "Sales Tax"
K_SalesTax == <<"S","a","l","e","s"," ","T","a","x">>
\* "Quantity"
K_Quantity == <<"Q","u","a","n","t","i","t","y">>
\* "Amount Due"
K_AmountDue == <<"A","m","o","u","n","t"," ","D","u","e">>


-----------------------------------------------------------------------------
(* The vendor pattern registry.  The pattern strings of the source are raw *)
(* strings with doubled backslashes (r"\\b\\d{3,6}\\b"), so in each of     *)
(* them `\\` is the regular expression for one literal backslash and the   *)
(* character after it is an ordinary character: `\\b` is backslash, b;     *)
(* `\\d{3,6}` is backslash, then d three to six times; `\\$?` is           *)
(* backslash, then the anchor $ followed by the quantifier ?; `\\.` is     *)
(* backslash, then any character.                                          *)

BS == Lit(Backslash)

\* r"\\b\\d{3,6}\\b"
AcmeItemNumber == <<BS, Lit("b"), BS, Rep(Lit("d"), 3, 6), BS, Lit("b")>>
\* r"[A-Za-z][A-Za-z\\s-]{5,50}"
AcmeDescription ==
    <<Set(Letters), Rep(Set(Letters \cup {Backslash, "s", "-"}), 5, 50)>>
\* r"\\b\\d{1,3}\\b"
AcmeQuantity == <<BS, Lit("b"), BS, Rep(Lit("d"), 1, 3), BS, Lit("b")>>
\* r"\\$?\\d+\\.\\d{2}"
AcmePrice ==
    <<BS, Rep(AtEnd, 0, 1), BS, Rep(Lit("d"), 1, -1), BS, AnyChar,
      BS, Rep(Lit("d"), 2, 2)>>

\* r"TS-\\d{4,}"
TechItemNumber == <<Lit("T"), Lit("S"), Lit("-"), BS, Rep(Lit("d"), 4, -1)>>
\* r"[A-Za-z][A-Za-z\\s-]{10,60}"
TechDescription ==
    <<Set(Letters), Rep(Set(Letters \cup {Backslash, "s", "-"}), 10, 60)>>
\* r"\\b\\d{1,4}\\b"
TechQuantity == <<BS, Lit("b"), BS, Rep(Lit("d"), 1, 4), BS, Lit("b")>>
\* r"\\$\\d+\\.\\d{2}"
TechPrice ==
    <<BS, AtEnd, BS, Rep(Lit("d"), 1, -1), BS, AnyChar, BS, Rep(Lit("d"), 2, 2)>>

\* r"\\b[A-Z0-9-]{3,10}\\b"
GenericItemNumber ==
    <<BS, Lit("b"),
      Rep(Set({UpperChars[i] : i \in 1..26} \cup DigitChars \cup {"-"}), 3, 10),
      BS, Lit("b")>>

\* the order in which patterns["column_patterns"].items() yields the fields
ColumnFields ==
    <<"item_number", "description", "quantity", "unit_price", "total_price">>

load_vendor_patterns ==
    [acme |->
        [table_start_keywords |-> <<K_Item, K_Description, K_Qty, K_Price, K_Total>>,
         table_end_keywords   |-> <<K_Subtotal, K_Tax, K_TotalDue>>,
         column_patterns |->
            [item_number |-> AcmeItemNumber,
             description |-> AcmeDescription,
             quantity    |-> AcmeQuantity,
             unit_price  |-> AcmePrice,
             total_price |-> AcmePrice]],
     techsupply |->
        [table_start_keywords |-> <<K_PartNo, K_Item, K_Qty, K_UnitCost, K_Amount>>,
         table_end_keywords   |-> <<K_Subtotal, K_SalesTax, K_Total>>,
         column_patterns |->
            [item_number |-> TechItemNumber,
             description |-> TechDescription,
             quantity    |-> TechQuantity,
             unit_price  |-> TechPrice,
             total_price |-> TechPrice]],
     generic |->
        [table_start_keywords |->
            <<K_Item, K_Description, K_Quantity, K_Price, K_Amount, K_Total>>,
         table_end_keywords   |-> <<K_Subtotal, K_Tax, K_Total, K_AmountDue>>,
         column_patterns |->
            [item_number |-> GenericItemNumber,
             description |-> AcmeDescription,
             quantity    |-> TechQuantity,
             unit_price  |-> AcmePrice,
             total_price |-> AcmePrice]]]

\* self.vendor_patterns, set once by __init__ and read by every method
vendor_patterns == self_vendor_patterns

\* header_keywords without "Qty"
header_keywords_NoQty ==
    <<K_Item, K_Description, K_Price, K_Total, K_PartNo, K_Amount>>

\* header_keywords of parse_row_to_line_item
header_keywords ==
    <<K_Item, K_Description, K_Qty, K_Price, K_Total, K_PartNo, K_Amount>>

\* r'^\\$?\\d+\\.?\\d*$' : the "pure price or number" test of the description
DescPricePattern ==
    <<AtBegin, BS, Rep(AtEnd, 0, 1), BS, Rep(Lit("d"), 1, -1), BS,
      Rep(AnyChar, 0, 1), BS, Rep(Lit("d"), 0, -1), AtEnd>>
\* r'^\\d{1,4}$' : the "pure quantity" test of the description
DescNumberPattern == <<AtBegin, BS, Rep(Lit("d"), 1, 4), AtEnd>>

-----------------------------------------------------------------------------
(* detect_table_region.  Confidences that Python holds as floats in [0, 1]  *)
(* are held in hundredths (0.8 is 80).                                     *)

\* None, as the value of table_region
NoRegion == [none |-> TRUE]

\* smallest and largest element of a non-empty set of integers
Min(S) == CHOOSE m \in S : \A n \in S : m <= n
Max(S) == CHOOSE m \in S : \A n \in S : m >= n

\* the condition of the two keyword loops: word.strip() and any(keyword in word)
WordHasKeyword(w, keywords) ==
    Strip(w.text) # <<>> /\ AnyKeywordIn(keywords, w.text)

\* StartMatches that also takes the end keywords for start keywords
StartMatches_AnyKeyword(words, patterns) ==
    {i \in 1..Len(words) :
        \/ WordHasKeyword(words[i], patterns.table_start_keywords)
        \/ WordHasKeyword(words[i], patterns.table_end_keywords)}

\* indices at which the loop "Find start of table" would assign table_start_y
StartMatches(words, patterns) ==
    {i \in 1..Len(words) : WordHasKeyword(words[i], patterns.table_start_keywords)}

\* indices at which the loop "Find end of table" would assign table_end_y;
\* `if table_start_y and ...` is false for table_start_y None and for 0
EndMatches(words, patterns) ==
    LET starts == StartMatches(words, patterns)
        table_start_y == words[Min(starts)].top
    IN  {i \in 1..Len(words) :
            /\ WordHasKeyword(words[i], patterns.table_end_keywords)
            /\ starts # {}
            /\ table_start_y # 0
            /\ words[i].top > table_start_y}

\* InBand that also takes the words with blank text
InBand_Blank(w, table_start_y, table_end_y) ==
    table_start_y <= w.top /\ w.top <= table_end_y

\* the condition of the two comprehensions "Calculate table bounds":
\* table_start_y <= tops[i] <= table_end_y and word.strip()
InBand(w, table_start_y, table_end_y) ==
    /\ table_start_y <= w.top
    /\ w.top <= table_end_y
    /\ Strip(w.text) # <<>>

\* detect_table_region that anchors the table at the topmost start keyword
detect_table_region_Topmost(words, vendor) ==
    LET patterns == vendor_patterns[vendor]
        starts   == StartMatches(words, patterns)
        ends     == EndMatches(words, patterns)
        table_start_y == Min({words[i].top : i \in starts})
        table_end_y ==
            IF ends # {} THEN words[Min(ends)].top
            ELSE Max({words[i].top : i \in 1..Len(words)})
                 + Max({words[i].height : i \in 1..Len(words)})
        band == {i \in 1..Len(words) :
                    InBand(words[i], table_start_y, table_end_y)}
        table_left  == Min({words[i].left : i \in band})
        table_right == Max({words[i].left + words[i].width : i \in band})
    IN  IF starts = {} THEN NoRegion
        ELSE [x |-> table_left,
              y |-> table_start_y,
              width |-> table_right - table_left,
              height |-> table_end_y - table_start_y,
              confidence |-> 80]

detect_table_region(words, vendor) ==
    LET patterns == vendor_patterns[vendor]
        starts   == StartMatches(words, patterns)
        ends     == EndMatches(words, patterns)
        table_start_y == words[Min(starts)].top
        table_end_y ==
            IF ends # {} THEN words[Min(ends)].top
            ELSE Max({words[i].top : i \in 1..Len(words)})
                 + Max({words[i].height : i \in 1..Len(words)})
        band == {i \in 1..Len(words) :
                    InBand(words[i], table_start_y, table_end_y)}
        table_left  == Min({words[i].left : i \in band})
        table_right == Max({words[i].left + words[i].width : i \in band})
    IN  IF starts = {} THEN NoRegion
        ELSE [x |-> table_left,
              y |-> table_start_y,
              width |-> table_right - table_left,
              height |-> table_end_y - table_start_y,
              confidence |-> 80]

-----------------------------------------------------------------------------
(* extract_line_items_from_region: the word filter.                        *)

\* InTable with the right and the bottom bound exclusive
InTable_Exclusive(w, region) ==
    /\ Strip(w.text) # <<>>
    /\ w.conf > 30
    /\ region.x <= w.left /\ w.left < region.x + region.width
    /\ region.y <= w.top /\ w.top < region.y + region.height

\* the condition of the filter loop for one index
InTable(w, region) ==
    /\ Strip(w.text) # <<>>
    /\ w.conf > 30
    /\ region.x <= w.left /\ w.left <= region.x + region.width
    /\ region.y <= w.top /\ w.top <= region.y + region.height

\* the dict appended to table_words for one index
TableWord(w) ==
    [text |-> w.text, x |-> w.left, y |-> w.top, width |-> w.width,
     height |-> w.height, confidence |-> w.conf]

RECURSIVE FilterTableWords(_, _)
FilterTableWords(words, region) ==
    IF words = <<>> THEN <<>>
    ELSE (IF InTable(Head(words), region) THEN <<TableWord(Head(words))>>
          ELSE <<>>)
         \o FilterTableWords(Tail(words), region)

-----------------------------------------------------------------------------
(* group_words_by_rows.  list.sort and sorted are stable.                  *)

\* tolerance=10, the default of the parameter
tolerance == 10

Abs(n) == IF n < 0 THEN -n ELSE n

\* w placed after every element whose key is not greater (stability)
RECURSIVE InsertByKey(_, _, _)
InsertByKey(sorted, w, key) ==
    IF sorted = <<>> THEN <<w>>
    ELSE IF w[key] < Head(sorted)[key] THEN <<w>> \o sorted
    ELSE <<Head(sorted)>> \o InsertByKey(Tail(sorted), w, key)

\* SortedByKey that leaves the list as it is
SortedByKey_Unsorted(seq, key) == seq

\* sorted(seq, key=lambda w: w[key])
RECURSIVE SortedByKey(_, _)
SortedByKey(seq, key) ==
    IF seq = <<>> THEN <<>>
    ELSE InsertByKey(SortedByKey(SubSeq(seq, 1, Len(seq) - 1), key),
                     seq[Len(seq)], key)

\* JoinsRow measured from the row's latest word instead of its anchor
JoinsRow_Rolling(word, current_row, current_y) ==
    Abs(word.y - current_row[Len(current_row)].y) <= tolerance

\* whether a word joins the current row
JoinsRow(word, current_row, current_y) ==
    Abs(word.y - current_y) <= tolerance

\* GroupLoop whose anchor moves to every word that joins the row
RECURSIVE GroupLoop_MovingAnchor(_, _, _, _)
GroupLoop_MovingAnchor(rest, current_row, current_y, acc) ==
    IF rest = <<>>
    THEN IF current_row # <<>>
         THEN Append(acc, SortedByKey(current_row, "x")) ELSE acc
    ELSE LET word == Head(rest)
         IN  IF JoinsRow(word, current_row, current_y)
             THEN GroupLoop_MovingAnchor(Tail(rest), Append(current_row, word),
                                         word.y, acc)
             ELSE GroupLoop_MovingAnchor(Tail(rest), <<word>>, word.y,
                            IF current_row # <<>>
                            THEN Append(acc, SortedByKey(current_row, "x"))
                            ELSE acc)

\* the loop over words[1:], with the final flush of current_row
RECURSIVE GroupLoop(_, _, _, _)
GroupLoop(rest, current_row, current_y, acc) ==
    IF rest = <<>>
    THEN IF current_row # <<>>
         THEN Append(acc, SortedByKey(current_row, "x")) ELSE acc
    ELSE LET word == Head(rest)
         IN  IF JoinsRow(word, current_row, current_y)
             THEN GroupLoop(Tail(rest), Append(current_row, word), current_y, acc)
             ELSE GroupLoop(Tail(rest), <<word>>, word.y,
                            IF current_row # <<>>
                            THEN Append(acc, SortedByKey(current_row, "x"))
                            ELSE acc)

\* group_words_by_rows without the flush of the last open row
group_words_by_rows_NoFlush(words) ==
    IF words = <<>> THEN <<>>
    ELSE LET sorted == SortedByKey(words, "y")
             all == GroupLoop(Tail(sorted), <<sorted[1]>>, sorted[1].y, <<>>)
         IN  SubSeq(all, 1, Len(all) - 1)

\* the rows returned for the (already sorted) list
group_words_by_rows(words) ==
    IF words = <<>> THEN <<>>
    ELSE LET sorted == SortedByKey(words, "y")
         IN  GroupLoop(Tail(sorted), <<sorted[1]>>, sorted[1].y, <<>>)

-----------------------------------------------------------------------------
(* parse_row_to_line_item.  The empty string is <<>>.  What the call does  *)
(* is one of: return None, return a LineItem, raise re.error.              *)

ReturnsNone  == [kind |-> "none"]
RaisesReError == [kind |-> "raise"]
ReturnsItem(item) == [kind |-> "item", item |-> item]

\* texts of the words of a row, in row order
RowTexts(row_words) == [i \in 1..Len(row_words) |-> row_words[i].text]

\* row_text = " ".join([w['text'] for w in row_words])
RowText(row_words) == Join(RowTexts(row_words))

\* the header test: any(keyword.lower() in row_text.lower() ...)
IsHeaderRow(row_words) == AnyKeywordIn(header_keywords, RowText(row_words))

\* TooFewWords that lets one-word rows through
TooFewWords_Empty(row_words) == Len(row_words) < 1

\* the guard `len(row_words) < 2`
TooFewWords(row_words) == Len(row_words) < 2

\* re.findall(pattern, row_text, re.IGNORECASE) raises for some field
FieldLoopRaises(patterns) ==
    \E f \in 1..Len(ColumnFields) :
        ~Compiles(patterns.column_patterns[ColumnFields[f]])

\* matches[0] / matches[-1], or "" when the field is left at its default
FirstMatch(p, text) ==
    LET matches == ReFindall(p, text)
    IN  IF matches # <<>> THEN matches[1] ELSE <<>>
LastMatch(p, text) ==
    LET matches == ReFindall(p, text)
    IN  IF matches # <<>> THEN matches[Len(matches)] ELSE <<>>

\* the description test of one word raises: text is non-empty and
\* re.match compiles a pattern that does not compile
DescriptionWordRaises(text) ==
    /\ text # <<>>
    /\ \/ ~Compiles(DescPricePattern)
       \/ ~ReMatch(DescPricePattern, text) /\ ~Compiles(DescNumberPattern)

\* the description test of one word, when it does not raise
DescriptionWord(text) ==
    /\ text # <<>>
    /\ ~ReMatch(DescPricePattern, text)
    /\ ~ReMatch(DescNumberPattern, text)
    /\ Len(text) > 2

\* min(fields_found / 5.0, 1.0), in hundredths
Confidence(fields) ==
    LET fields_found == Cardinality({i \in 1..Len(fields) : fields[i] # <<>>})
    IN  IF fields_found * 20 < 100 THEN fields_found * 20 ELSE 100

parse_row_to_line_item(row_words, patterns) ==
    IF TooFewWords(row_words) THEN ReturnsNone
    ELSE IF IsHeaderRow(row_words) THEN ReturnsNone
    ELSE IF FieldLoopRaises(patterns) THEN RaisesReError
    ELSE LET row_text == RowText(row_words)
             cp == patterns.column_patterns
             stripped == [i \in 1..Len(row_words) |-> Strip(row_words[i].text)]
             description_words == SelectSeq(stripped, DescriptionWord)
             item_number == FirstMatch(cp.item_number, row_text)
             quantity    == FirstMatch(cp.quantity, row_text)
             unit_price  == RemoveDollar(FirstMatch(cp.unit_price, row_text))
             total_price == RemoveDollar(LastMatch(cp.total_price, row_text))
             description ==
                 Join(SubSeq(description_words, 1,
                             IF Len(description_words) < 5
                             THEN Len(description_words) ELSE 5))
         IN  IF \E i \in 1..Len(stripped) : DescriptionWordRaises(stripped[i])
             THEN RaisesReError
             ELSE ReturnsItem(
                    [item_number |-> item_number,
                     description |-> description,
                     quantity    |-> quantity,
                     unit_price  |-> unit_price,
                     total_price |-> total_price,
                     confidence  |-> Confidence(<<item_number, description,
                                      quantity, unit_price, total_price>>),
                     bounding_box |-> "None"])

\* KeepsItem without the any([...]) test: every LineItem is appended
KeepsItem_Always(outcome) == outcome.kind = "item"

\* the condition under which extract_line_items_from_region appends the item
KeepsItem(outcome) ==
    /\ outcome.kind = "item"
    /\ \/ outcome.item.item_number # <<>>
       \/ outcome.item.description # <<>>
       \/ outcome.item.quantity # <<>>

\* parse_row_to_line_item for every row, in row order
RowOutcomes(rws, patterns) ==
    [i \in 1..Len(rws) |-> parse_row_to_line_item(rws[i], patterns)]

\* index of the first row whose classification raises, 0 when none does
FirstRaise(outs) ==
    IF \E i \in 1..Len(outs) : outs[i].kind = "raise"
    THEN Min({i \in 1..Len(outs) : outs[i].kind = "raise"})
    ELSE 0

\* CollectItems with the test `if line_item:` alone
RECURSIVE CollectItems_All(_)
CollectItems_All(outs) ==
    IF outs = <<>> THEN <<>>
    ELSE (IF Head(outs).kind = "item" THEN <<Head(outs).item>> ELSE <<>>)
         \o CollectItems_All(Tail(outs))

\* line_items after the loop over the rows whose outcomes are outs
RECURSIVE CollectItems(_)
CollectItems(outs) ==
    IF outs = <<>> THEN <<>>
    ELSE (IF KeepsItem(Head(outs)) THEN <<Head(outs).item>> ELSE <<>>)
         \o CollectItems(Tail(outs))

-----------------------------------------------------------------------------
(* process_ocr_data of OCRBoundingBoxExtractor (src/unnamed/part_000).     *)
(* data_type (classify_data_type) is left out of the element: it does not  *)
(* take part in the filter and never raises (its body is inside try).      *)

\* confidence = int(confidences[i]) if confidences[i] != -1 else 0
ElementConfidence(conf) == IF conf # -1 THEN conf ELSE 0

\* PassesThreshold with the threshold itself passing
PassesThreshold_AtLeast(text, confidence) == text # <<>> /\ confidence >= 30

\* the filter `if text and confidence > 30`
PassesThreshold(text, confidence) == text # <<>> /\ confidence > 30

Element(w, element_id) ==
    [element_id |-> element_id,
     text |-> Strip(w.text),
     bounding_box |-> [x |-> w.left, y |-> w.top,
                       width |-> w.width, height |-> w.height],
     coordinates |->
        [top_left     |-> [x |-> w.left, y |-> w.top],
         top_right    |-> [x |-> w.left + w.width, y |-> w.top],
         bottom_left  |-> [x |-> w.left, y |-> w.top + w.height],
         bottom_right |-> [x |-> w.left + w.width, y |-> w.top + w.height]],
     confidence |-> ElementConfidence(w.conf),
     text_length |-> Len(Strip(w.text))]

RECURSIVE ProcessLoop(_, _)
ProcessLoop(words, element_id) ==
    IF words = <<>> THEN <<>>
    ELSE IF PassesThreshold(Strip(Head(words).text),
                            ElementConfidence(Head(words).conf))
         THEN <<Element(Head(words), element_id)>>
              \o ProcessLoop(Tail(words), element_id + 1)
         ELSE ProcessLoop(Tail(words), element_id)

process_ocr_data(words) == ProcessLoop(words, 1)

-----------------------------------------------------------------------------
(* Inputs: what the recognizer can return for a page.                      *)

Word(text, left, top, width, height, conf) ==
    [text |-> text, left |-> left, top |-> top, width |-> width,
     height |-> height, conf |-> conf]

\* recognized words the bounded word lists are built from: header, data and
\* footer words, an empty and a blank detection, confidences at and around
\* the threshold, and tops 100, 105, 110, 120 around the row tolerance
WordPool ==
    {Word(<<"I","t","e","m">>, 10, 50, 40, 12, 90),
     Word(<<"D","e","s","c","r","i","p","t","i","o","n">>, 60, 100, 90, 12, 90),
     Word(<<"Q","t","y">>, 200, 105, 30, 12, 31),
     Word(<<"W","i","d","g","e","t">>, 60, 100, 60, 12, 90),
     Word(<<"1","0","1">>, 10, 100, 30, 12, 90),
     Word(<<"B","o","l","t">>, 70, 110, 40, 12, 95),
     Word(<<"G","e","a","r">>, 30, 120, 40, 12, 95),
     Word(<<>>, 0, 0, 0, 0, -1),
     Word(<<"S","u","b","t","o","t","a","l">>, 10, 150, 70, 12, 90),
     Word(<<"I","t","e","m">>, 10, 0, 40, 12, 20),
     Word(<<" ">>, 300, 100, 5, 12, 95),
     Word(<<"N","u","t">>, 250, 100, 30, 12, 30)}

\* every list of at most MaxWords pool words
WordLists == UNION {[1..n -> WordPool] : n \in 0..MaxWords}

\* the page of the end-to-end scenario: a header row, one data row, a footer
ScenarioInvoice ==
    <<Word(<<"I","t","e","m">>, 10, 50, 40, 12, 90),
      Word(<<"D","e","s","c","r","i","p","t","i","o","n">>, 60, 50, 90, 12, 90),
      Word(<<"Q","t","y">>, 200, 50, 30, 12, 90),
      Word(<<"P","r","i","c","e">>, 250, 50, 40, 12, 90),
      Word(<<"T","o","t","a","l">>, 300, 50, 40, 12, 90),
      Word(<<"1","0","1">>, 10, 100, 30, 12, 90),
      Word(<<"W","i","d","g","e","t","A">>, 60, 100, 60, 12, 90),
      Word(<<"2">>, 200, 100, 10, 12, 90),
      Word(<<"5",".","0","0">>, 250, 100, 40, 12, 90),
      Word(<<"1","0",".","0","0">>, 300, 100, 40, 12, 90),
      Word(<<"S","u","b","t","o","t","a","l">>, 10, 150, 70, 12, 90)>>

\* a page whose only data row reads "3 Widget $10.00 $30.00"
TwoPriceInvoice ==
    <<Word(<<"I","t","e","m">>, 10, 50, 40, 12, 90),
      Word(<<"3">>, 10, 100, 10, 12, 90),
      Word(<<"W","i","d","g","e","t">>, 60, 100, 60, 12, 90),
      Word(<<"$","1","0",".","0","0">>, 250, 100, 50, 12, 90),
      Word(<<"$","3","0",".","0","0">>, 320, 100, 50, 12, 90)>>

\* a page whose footer row reads "Tax $5.00"
FooterInvoice ==
    <<Word(<<"I","t","e","m">>, 10, 50, 40, 12, 90),
      Word(<<"T","a","x">>, 10, 150, 30, 12, 90),
      Word(<<"$","5",".","0","0">>, 60, 150, 50, 12, 90)>>

\* a page whose header word is taller than the data word below it
TallHeaderInvoice ==
    <<Word(<<"I","t","e","m">>, 10, 50, 40, 20, 90),
      Word(<<"W","i","d","g","e","t">>, 60, 100, 60, 12, 90)>>

Pages ==
    WordLists \cup {ScenarioInvoice, TwoPriceInvoice, FooterInvoice,
                    TallHeaderInvoice}

\* vendor_type arguments: the three of the selectbox and one that is not
\* a key of the registry
VendorArgs == {"acme", "techsupply", "generic", "other"}

\* str(e) of the exception caught by extract_text_with_coordinates
OcrErrors == {"tesseract is not installed", "cannot open broken document"}

\* values of datetime.now().isoformat()
Clock == {"2024-01-01T00:00:00", "2024-01-01T00:00:01"}

\* a variable that has not been assigned yet
Unassigned == [unassigned |-> TRUE]

-----------------------------------------------------------------------------
(* One run of process_invoice_with_dynamic_line_items.  stage is the       *)
(* position of the run: Idle before the call, Extracting once              *)
(* extract_text_with_coordinates has returned, RegionDetected once         *)
(* detect_table_region has returned, RowsGrouped once group_words_by_rows  *)
(* has returned, Classified once every row went through                    *)
(* parse_row_to_line_item, Done / Failed once the run returned a success / *)
(* error result.  An exception that no handler of the run catches ends the *)
(* run where it is: raised records it and no step follows.                 *)

\* WordsAfterDetect for a detection that sorts the arrays top to bottom
WordsAfterDetect_Sorted(words) == SortedByKey(words, "top")

\* the recognizer's arrays after detect_table_region: lines 254-283 only
\* read words, tops, lefts, widths and heights
WordsAfterDetect(words) == words

\* WordsAfterFilter for a filter that sorts the arrays instead of table_words
WordsAfterFilter_Sorted(words) == SortedByKey(words, "top")

\* the recognizer's arrays after extract_line_items_from_region: the filter
\* copies the values into new dicts and only table_words is sorted
WordsAfterFilter(words) == words

\* RegistryAfterLookup that also files the entry under "generic"
RegistryAfterLookup_Alias(registry, vendor) ==
    [registry EXCEPT !["generic"] = registry[vendor]]

\* self.vendor_patterns after `patterns = self.vendor_patterns[vendor_type]`:
\* a subscript read of a plain dict, and patterns is only read afterwards
RegistryAfterLookup(registry, vendor) == registry

Init ==
    /\ stage = "Idle"
    /\ raised = ""
    /\ vendor_type = ""
    /\ extraction_result = Unassigned
    /\ table_region = Unassigned
    /\ table_words = <<>>
    /\ rows = <<>>
    /\ outcomes = <<>>
    /\ line_items = <<>>
    /\ result = Unassigned
    /\ ocr_data = <<>>
    /\ elements = Unassigned
    /\ self_vendor_patterns = load_vendor_patterns
    /\ second_region = Unassigned
    /\ other_run = Unassigned
    /\ alone_runs = Unassigned

\* Step 1: extract_text_with_coordinates; its try/except turns every
\* exception of the rasterizer or the recognizer into an error dict
ExtractText ==
    /\ stage = "Idle" /\ raised = ""
    /\ stage' = "Extracting"
    /\ vendor_type' \in VendorArgs
    /\ \/ \E e \in OcrErrors :
            extraction_result' = [error |-> "OCR Error: " \o e]
       \/ \E page \in Pages :
            extraction_result' = [full_text |-> "full_text",
                                  ocr_data  |-> page,
                                  image     |-> "image"]
    /\ UNCHANGED <<raised, table_region, table_words, rows, outcomes,
                   line_items, result, ocr_data, elements, extra>>

\* ReturnOcrError with a retry: the error sends the run back to extraction
ReturnOcrError_Retry ==
    /\ stage = "Extracting" /\ raised = ""
    /\ "error" \in DOMAIN extraction_result
    /\ extraction_result' = Unassigned
    /\ stage' = "Idle"
    /\ UNCHANGED <<raised, vendor_type, result, table_region,
                   table_words, rows, outcomes, line_items, ocr_data, elements, extra>>

\* if "error" in extraction_result: return extraction_result
ReturnOcrError ==
    /\ stage = "Extracting" /\ raised = ""
    /\ "error" \in DOMAIN extraction_result
    /\ result' = extraction_result
    /\ stage' = "Failed"
    /\ UNCHANGED <<raised, vendor_type, extraction_result, table_region,
                   table_words, rows, outcomes, line_items, ocr_data, elements, extra>>

\* DetectRegion that runs an unknown vendor_type as "generic"
DetectRegion_Fallback ==
    /\ stage = "Extracting" /\ raised = ""
    /\ "error" \notin DOMAIN extraction_result
    /\ vendor_type' =
           IF vendor_type \in DOMAIN vendor_patterns THEN vendor_type
           ELSE "generic"
    /\ table_region' =
           detect_table_region(extraction_result.ocr_data, vendor_type')
    /\ stage' = "RegionDetected"
    /\ UNCHANGED <<raised, extraction_result, table_words, rows, outcomes,
                   line_items, result, ocr_data, elements, extra>>

\* Step 2: detect_table_region; self.vendor_patterns[vendor_type] raises
\* KeyError for a vendor_type that is not a key
DetectRegion ==
    /\ stage = "Extracting" /\ raised = ""
    /\ "error" \notin DOMAIN extraction_result
    /\ IF vendor_type \in DOMAIN vendor_patterns
       THEN /\ table_region' =
                   detect_table_region(extraction_result.ocr_data, vendor_type)
            /\ extraction_result' =
                   [extraction_result EXCEPT
                       !.ocr_data = WordsAfterDetect(@)]
            /\ self_vendor_patterns' =
                   RegistryAfterLookup(self_vendor_patterns, vendor_type)
            /\ stage' = "RegionDetected"
            /\ UNCHANGED raised
       ELSE /\ raised' = "KeyError"
            /\ UNCHANGED <<stage, table_region, extraction_result,
                           self_vendor_patterns>>
    /\ UNCHANGED <<vendor_type, table_words, rows, outcomes,
                   line_items, result, ocr_data, elements, others>>

\* ReturnNoRegion with an error result that also carries an empty item list
ReturnNoRegion_Partial ==
    /\ stage = "RegionDetected" /\ raised = ""
    /\ table_region = NoRegion
    /\ result' = [error |-> "Could not detect table region in invoice",
                  line_items_count |-> 0,
                  line_items |-> <<>>]
    /\ stage' = "Failed"
    /\ UNCHANGED <<raised, vendor_type, extraction_result, table_region,
                   table_words, rows, outcomes, line_items, ocr_data, elements, extra>>

\* if not table_region: return {"error": ...}
ReturnNoRegion ==
    /\ stage = "RegionDetected" /\ raised = ""
    /\ table_region = NoRegion
    /\ result' = [error |-> "Could not detect table region in invoice"]
    /\ stage' = "Failed"
    /\ UNCHANGED <<raised, vendor_type, extraction_result, table_region,
                   table_words, rows, outcomes, line_items, ocr_data, elements, extra>>

\* Step 3, first half: extract_line_items_from_region up to the call of
\* group_words_by_rows, which sorts table_words in place
GroupRows ==
    /\ stage = "RegionDetected" /\ raised = ""
    /\ table_region # NoRegion
    /\ LET filtered ==
               FilterTableWords(extraction_result.ocr_data, table_region)
       IN  /\ table_words' = SortedByKey(filtered, "y")
           /\ rows' = group_words_by_rows(filtered)
    /\ extraction_result' =
           [extraction_result EXCEPT !.ocr_data = WordsAfterFilter(@)]
    /\ self_vendor_patterns' =
           RegistryAfterLookup(self_vendor_patterns, vendor_type)
    /\ stage' = "RowsGrouped"
    /\ UNCHANGED <<raised, vendor_type, table_region,
                   outcomes, line_items, result, ocr_data, elements, others>>

\* Step 3, second half: the loop over the rows; an re.error raised by
\* parse_row_to_line_item is caught nowhere and ends the run
ClassifyRows ==
    /\ stage = "RowsGrouped" /\ raised = ""
    /\ LET outs == RowOutcomes(rows, vendor_patterns[vendor_type])
           k == FirstRaise(outs)
       IN  IF k = 0
           THEN /\ outcomes' = outs
                /\ line_items' = CollectItems(outs)
                /\ stage' = "Classified"
                /\ UNCHANGED raised
           ELSE /\ outcomes' = SubSeq(outs, 1, k)
                /\ line_items' = CollectItems(SubSeq(outs, 1, k - 1))
                /\ raised' = "re.error"
                /\ UNCHANGED stage
    /\ UNCHANGED <<vendor_type, extraction_result, table_region, table_words,
                   rows, result, ocr_data, elements, extra>>

\* the dict of one LineItem in the result
ItemDict(item) ==
    [item_number |-> item.item_number,
     description |-> item.description,
     quantity    |-> item.quantity,
     unit_price  |-> item.unit_price,
     total_price |-> item.total_price,
     confidence  |-> item.confidence]

\* Step 4 and the return of the success result
AssembleResult ==
    /\ stage = "Classified" /\ raised = ""
    /\ \E now \in Clock :
         result' =
            [vendor_type |-> vendor_type,
             table_region |-> [x |-> table_region.x,
                               y |-> table_region.y,
                               width |-> table_region.width,
                               height |-> table_region.height,
                               confidence |-> table_region.confidence],
             line_items_count |-> Len(line_items),
             line_items |-> [i \in 1..Len(line_items) |-> ItemDict(line_items[i])],
             full_text |-> extraction_result.full_text,
             visualization |-> "visualization",
             timestamp |-> now,
             processing_method |->
                 "Dynamic Table Detection + Line Item Extraction"]
    /\ stage' = "Done"
    /\ UNCHANGED <<raised, vendor_type, extraction_result, table_region,
                   table_words, rows, outcomes, line_items, ocr_data, elements, extra>>

Next ==
    \/ ExtractText
    \/ ReturnOcrError
    \/ DetectRegion
    \/ ReturnNoRegion
    \/ GroupRows
    \/ ClassifyRows
    \/ AssembleResult

Spec == Init /\ [][Next]_vars

-----------------------------------------------------------------------------
(* The word filter of OCRBoundingBoxExtractor on its own: the recognizer   *)
(* hands a word list to process_ocr_data, which returns the elements.      *)

InitBBox ==
    /\ stage = "Idle"
    /\ raised = ""
    /\ vendor_type = ""
    /\ extraction_result = Unassigned
    /\ table_region = Unassigned
    /\ table_words = <<>>
    /\ rows = <<>>
    /\ outcomes = <<>>
    /\ line_items = <<>>
    /\ result = Unassigned
    /\ ocr_data \in WordLists
    /\ elements = Unassigned
    /\ self_vendor_patterns = load_vendor_patterns
    /\ second_region = Unassigned
    /\ other_run = Unassigned
    /\ alone_runs = Unassigned

ProcessOcrData ==
    /\ elements = Unassigned
    /\ elements' = [returned |-> process_ocr_data(ocr_data)]
    /\ UNCHANGED <<stage, raised, vendor_type, extraction_result, table_region,
                   table_words, rows, outcomes, line_items, result, ocr_data,
                   extra>>

NextBBox == ProcessOcrData

SpecBBox == InitBBox /\ [][NextBBox]_vars

-----------------------------------------------------------------------------
(* The row loop of extract_line_items_from_region (lines 326-333) on its   *)
(* own: parse_row_to_line_item and the append test applied to one row that *)
(* is handed over directly, which may hold blank words that the word       *)
(* filter of a run would have dropped.                                     *)

TableWordOf(text, x, y) ==
    [text |-> text, x |-> x, y |-> y, width |-> 40, height |-> 12,
     confidence |-> 90]

\* words of one text line, at distinct horizontal positions
RowWordPool ==
    {TableWordOf(<<>>, 0, 100),
     TableWordOf(<<"T","S","-","1","2","3","4">>, 10, 100),
     TableWordOf(<<"W","i","d","g","e","t">>, 60, 100),
     TableWordOf(<<"Q","t","y">>, 200, 100),
     TableWordOf(<<"$","5",".","0","0">>, 250, 100),
     TableWordOf(<<" ">>, 300, 100),
     TableWordOf(<<"\t">>, 320, 100)}

\* the words of a set, left to right
RECURSIVE RowOf(_)
RowOf(S) ==
    IF S = {} THEN <<>>
    ELSE LET w == CHOOSE v \in S : \A u \in S : v.x <= u.x
         IN  <<w>> \o RowOf(S \ {w})

\* rows of at most MaxRowWords words, sorted as group_words_by_rows emits them
RowInputs ==
    {RowOf(S) : S \in {T \in SUBSET RowWordPool : Cardinality(T) <= MaxRowWords}}

InitRows ==
    /\ stage = "RowsGrouped"
    /\ raised = ""
    /\ vendor_type \in DOMAIN load_vendor_patterns
    /\ extraction_result = Unassigned
    /\ table_region = Unassigned
    /\ table_words = <<>>
    /\ rows \in {<<r>> : r \in RowInputs}
    /\ outcomes = <<>>
    /\ line_items = <<>>
    /\ result = Unassigned
    /\ ocr_data = <<>>
    /\ elements = Unassigned
    /\ self_vendor_patterns = load_vendor_patterns
    /\ second_region = Unassigned
    /\ other_run = Unassigned
    /\ alone_runs = Unassigned

NextRows == ClassifyRows

SpecRows == InitRows /\ [][NextRows]_vars

-----------------------------------------------------------------------------
(* detect_table_region called twice by a caller that holds the recognizer's *)
(* arrays: the second call sees whatever the first call left in them.       *)

InitDetect ==
    /\ stage = "Extracting"
    /\ raised = ""
    /\ vendor_type \in DOMAIN load_vendor_patterns
    /\ \E page \in Pages :
         extraction_result = [full_text |-> "full_text",
                              ocr_data  |-> page,
                              image     |-> "image"]
    /\ table_region = Unassigned
    /\ table_words = <<>>
    /\ rows = <<>>
    /\ outcomes = <<>>
    /\ line_items = <<>>
    /\ result = Unassigned
    /\ ocr_data = <<>>
    /\ elements = Unassigned
    /\ self_vendor_patterns = load_vendor_patterns
    /\ second_region = Unassigned
    /\ other_run = Unassigned
    /\ alone_runs = Unassigned

\* the second call, on the same arrays and with the same vendor
DetectAgain ==
    /\ stage = "RegionDetected" /\ raised = ""
    /\ second_region = Unassigned
    /\ second_region' =
           detect_table_region(extraction_result.ocr_data, vendor_type)
    /\ extraction_result' =
           [extraction_result EXCEPT !.ocr_data = WordsAfterDetect(@)]
    /\ self_vendor_patterns' =
           RegistryAfterLookup(self_vendor_patterns, vendor_type)
    /\ UNCHANGED <<stage, raised, vendor_type, table_region, table_words, rows,
                   outcomes, line_items, result, ocr_data, elements,
                   other_run, alone_runs>>

NextDetect ==
    \/ DetectRegion
    \/ DetectAgain

SpecDetect == InitDetect /\ [][NextDetect]_vars

-----------------------------------------------------------------------------
(* Two runs on one processor, each with its own arrays and its own locals  *)
(* (the call frames of detect_table_region, extract_line_items_from_region, *)
(* group_words_by_rows and parse_row_to_line_item), interleaved method by   *)
(* method. self.vendor_patterns is the only object both runs reach.         *)

\* pages of the two runs: a data row, a header that only acme and techsupply
\* know, header rows only, header words bottom to top, no header
TwoRunPages ==
    {<<Word(<<"I","t","e","m">>, 10, 50, 40, 12, 90),
       Word(<<"W","i","d","g","e","t">>, 60, 100, 60, 12, 90),
       Word(<<"1","0","1">>, 10, 100, 30, 12, 90)>>,
     <<Word(<<"Q","t","y">>, 200, 105, 30, 12, 31),
       Word(<<"W","i","d","g","e","t">>, 60, 100, 60, 12, 90),
       Word(<<"1","0","1">>, 10, 100, 30, 12, 90)>>,
     <<Word(<<"I","t","e","m">>, 10, 50, 40, 12, 90),
       Word(<<"D","e","s","c","r","i","p","t","i","o","n">>, 60, 100, 90, 12, 90),
       Word(<<"Q","t","y">>, 200, 105, 30, 12, 31)>>,
     <<Word(<<"D","e","s","c","r","i","p","t","i","o","n">>, 60, 100, 90, 12, 90),
       Word(<<"I","t","e","m">>, 10, 50, 40, 12, 90)>>,
     <<Word(<<"W","i","d","g","e","t">>, 60, 100, 60, 12, 90),
       Word(<<"1","0","1">>, 10, 100, 30, 12, 90)>>}

\* what a run on words with vendor computes when nothing else runs
AloneRun(words, vendor) ==
    LET region == detect_table_region(words, vendor)
        rws == IF region = NoRegion THEN <<>>
               ELSE group_words_by_rows(FilterTableWords(words, region))
        outs == RowOutcomes(rws, vendor_patterns[vendor])
        k == FirstRaise(outs)
    IN  [table_region |-> region,
         rows |-> rws,
         line_items |-> CollectItems(IF k = 0 THEN outs
                                     ELSE SubSeq(outs, 1, k - 1)),
         raised |-> IF k = 0 THEN "" ELSE "re.error"]

InitTwoRuns ==
    /\ stage = "Extracting"
    /\ raised = ""
    /\ vendor_type \in DOMAIN load_vendor_patterns
    /\ \E page \in TwoRunPages :
         extraction_result = [full_text |-> "full_text",
                              ocr_data  |-> page,
                              image     |-> "image"]
    /\ table_region = Unassigned
    /\ table_words = <<>>
    /\ rows = <<>>
    /\ outcomes = <<>>
    /\ line_items = <<>>
    /\ result = Unassigned
    /\ ocr_data = <<>>
    /\ elements = Unassigned
    /\ self_vendor_patterns = load_vendor_patterns
    /\ second_region = Unassigned
    /\ \E page \in TwoRunPages, vendor \in DOMAIN load_vendor_patterns :
         other_run = [stage |-> "Extracting",
                      raised |-> "",
                      vendor_type |-> vendor,
                      ocr_data |-> page,
                      table_region |-> Unassigned,
                      table_words |-> <<>>,
                      rows |-> <<>>,
                      outcomes |-> <<>>,
                      line_items |-> <<>>]
    /\ alone_runs = Unassigned

\* the locals of the first run
run_locals == <<stage, raised, vendor_type, extraction_result, table_region,
                table_words, rows, outcomes, line_items, result>>

\* the reference: each run made alone, before either of the two runs starts
RunAlone ==
    /\ alone_runs = Unassigned
    /\ stage = "Extracting" /\ other_run.stage = "Extracting"
    /\ alone_runs' =
          [first  |-> AloneRun(extraction_result.ocr_data, vendor_type),
           second |-> AloneRun(other_run.ocr_data, other_run.vendor_type)]
    /\ UNCHANGED <<run_locals, ocr_data, elements, self_vendor_patterns,
                   second_region, other_run>>

\* detect_table_region of the second run
OtherDetect ==
    /\ other_run.stage = "Extracting" /\ other_run.raised = ""
    /\ other_run' =
          [other_run EXCEPT
              !.table_region =
                  detect_table_region(other_run.ocr_data, other_run.vendor_type),
              !.ocr_data = WordsAfterDetect(@),
              !.stage = "RegionDetected"]
    /\ self_vendor_patterns' =
           RegistryAfterLookup(self_vendor_patterns, other_run.vendor_type)
    /\ UNCHANGED <<run_locals, ocr_data, elements, second_region, alone_runs>>

\* the word filter and group_words_by_rows of the second run
OtherGroup ==
    /\ other_run.stage = "RegionDetected" /\ other_run.raised = ""
    /\ other_run.table_region # NoRegion
    /\ LET filtered ==
               FilterTableWords(other_run.ocr_data, other_run.table_region)
       IN  other_run' =
              [other_run EXCEPT
                  !.table_words = SortedByKey(filtered, "y"),
                  !.rows = group_words_by_rows(filtered),
                  !.ocr_data = WordsAfterFilter(@),
                  !.stage = "RowsGrouped"]
    /\ self_vendor_patterns' =
           RegistryAfterLookup(self_vendor_patterns, other_run.vendor_type)
    /\ UNCHANGED <<run_locals, ocr_data, elements, second_region, alone_runs>>

\* the row loop of the second run
OtherClassify ==
    /\ other_run.stage = "RowsGrouped" /\ other_run.raised = ""
    /\ LET outs == RowOutcomes(other_run.rows,
                               vendor_patterns[other_run.vendor_type])
           k == FirstRaise(outs)
       IN  other_run' =
              IF k = 0
              THEN [other_run EXCEPT
                       !.outcomes = outs,
                       !.line_items = CollectItems(outs),
                       !.stage = "Classified"]
              ELSE [other_run EXCEPT
                       !.outcomes = SubSeq(outs, 1, k),
                       !.line_items = CollectItems(SubSeq(outs, 1, k - 1)),
                       !.raised = "re.error"]
    /\ UNCHANGED <<run_locals, ocr_data, elements, self_vendor_patterns,
                   second_region, alone_runs>>

NextTwoRuns ==
    \/ RunAlone
    \/ DetectRegion
    \/ GroupRows
    \/ ClassifyRows
    \/ OtherDetect
    \/ OtherGroup
    \/ OtherClassify

SpecTwoRuns == InitTwoRuns /\ [][NextTwoRuns]_vars

-----------------------------------------------------------------------------
(* Properties.                                                             *)

\* the run is over: it returned a result or an exception escaped it
RunEnded == stage \in {"Done", "Failed"} \/ raised # ""

\* the recognizer's words of the run (empty before extraction and after a
\* recognition error)
RunWords ==
    IF "ocr_data" \in DOMAIN extraction_result
    THEN extraction_result.ocr_data ELSE <<>>

\* the stage changes the state machine of the orchestrator allows
StageSteps ==
    {<<"Idle", "Extracting">>,
     <<"Extracting", "RegionDetected">>, <<"Extracting", "Failed">>,
     <<"RegionDetected", "RowsGrouped">>, <<"RegionDetected", "Failed">>,
     <<"RowsGrouped", "Classified">>,
     <<"Classified", "Done">>}

\* C1: a run moves through Idle, Extracting, RegionDetected, RowsGrouped,
\* Classified, Done in this order, each stage at most once; Failed is
\* entered only from Extracting (recognition error) or RegionDetected (no
\* table region); nothing follows Failed or Done, and a failed run has
\* executed none of the later stages (no region after a recognition error,
\* no table words, rows, classifications or items after either failure).
C1_StageOrder ==
    [][ /\ stage' # stage => <<stage, stage'>> \in StageSteps
        /\ stage \notin {"Failed", "Done"}
        /\ stage' = "Failed" =>
              /\ table_words' = <<>> /\ rows' = <<>>
              /\ outcomes' = <<>> /\ line_items' = <<>>
              /\ \/ stage = "Extracting" /\ "error" \in DOMAIN extraction_result
                    /\ table_region' = Unassigned
                 \/ stage = "RegionDetected" /\ table_region = NoRegion ]_vars

\* C1 witness: a run that failed after detection found no table region
C1_Witness ==
    /\ stage = "Failed"
    /\ table_region = NoRegion
    /\ RunWords # <<>>

\* keys of a success result that the presentation layer reads
SuccessKeys ==
    {"vendor_type", "table_region", "line_items_count", "line_items",
     "timestamp", "processing_method"}

\* C2: a returned result is either an error result whose only key is error
\* (no table_region, no line_items) or a success result with vendor_type,
\* table_region, line_items_count, line_items, timestamp and
\* processing_method and no error key; a result exists exactly when the run
\* is Done (success) or Failed (error); the message of a recognition failure
\* differs from the message of a missing table region.
C2_ResultShape ==
    /\ (result # Unassigned) <=> (stage \in {"Done", "Failed"})
    /\ stage = "Failed" => DOMAIN result = {"error"}
    /\ stage = "Done" =>
          /\ SuccessKeys \subseteq DOMAIN result
          /\ "error" \notin DOMAIN result
          /\ result.line_items_count = Len(result.line_items)
    /\ (stage = "Failed" /\ "error" \in DOMAIN extraction_result) =>
          result.error # "Could not detect table region in invoice"
    /\ (stage = "Failed" /\ "error" \notin DOMAIN extraction_result) =>
          /\ result.error = "Could not detect table region in invoice"
          /\ \A e \in OcrErrors : result.error # "OCR Error: " \o e

\* C2 witness: a run that returned a success result for a page with rows
C2_Witness ==
    /\ stage = "Done"
    /\ Len(rows) > 0
    /\ result.line_items_count = 0

\* no word of the run contains a start keyword of the vendor
C3_NoStartKeyword ==
    \A i \in 1..Len(RunWords) :
        ~AnyKeywordIn(vendor_patterns[vendor_type].table_start_keywords,
                      RunWords[i].text)

\* C3: when no word (of a possibly empty list) contains a start keyword of
\* the chosen vendor, detect_table_region returns None, the run goes from
\* RegionDetected to Failed with the "Could not detect table region" error
\* result, and no table words, rows, classifications or items are produced.
C3_NoRegion ==
    (/\ vendor_type \in DOMAIN vendor_patterns
     /\ "ocr_data" \in DOMAIN extraction_result
     /\ table_region # Unassigned
     /\ C3_NoStartKeyword)
    => /\ table_region = NoRegion
       /\ stage \in {"RegionDetected", "Failed"}
       /\ raised = ""
       /\ table_words = <<>> /\ rows = <<>>
       /\ outcomes = <<>> /\ line_items = <<>>
       /\ stage = "Failed" =>
             result = [error |-> "Could not detect table region in invoice"]

\* C3 witness: a failed run over a non-empty list without a start keyword
C3_Witness ==
    /\ stage = "Failed"
    /\ vendor_type \in DOMAIN vendor_patterns
    /\ "ocr_data" \in DOMAIN extraction_result
    /\ RunWords # <<>>
    /\ C3_NoStartKeyword

\* C4 (as claimed): the scenario page with the generic patterns ends in a
\* success result with exactly one LineItem: item_number "101", quantity
\* "2", unit_price "5.00", total_price "10.00", a description containing
\* "WidgetA", confidence 1.0.
C4_Scenario ==
    (/\ RunEnded
     /\ vendor_type = "generic"
     /\ RunWords = ScenarioInvoice)
    => /\ stage = "Done"
       /\ Len(result.line_items) = 1
       /\ result.line_items[1].item_number = <<"1","0","1">>
       /\ result.line_items[1].quantity = <<"2">>
       /\ result.line_items[1].unit_price = <<"5",".","0","0">>
       /\ result.line_items[1].total_price = <<"1","0",".","0","0">>
       /\ Contains(result.line_items[1].description, <<"W","i","d","g","e","t","A">>)
       /\ result.line_items[1].confidence = 100


\* indices of the words the normalizer has to keep: trimmed text non-empty
\* and confidence strictly above 30
C5_Kept ==
    {i \in 1..Len(ocr_data) :
        Strip(ocr_data[i].text) # <<>> /\ ocr_data[i].conf > 30}

\* the k-th smallest index of C5_Kept
C5_KthKept(k) ==
    CHOOSE i \in C5_Kept : Cardinality({j \in C5_Kept : j <= i}) = k

\* C5: the normalizer returns exactly the words whose trimmed text is
\* non-empty and whose confidence is above 30 (30 itself is excluded, 31 is
\* kept), in input order, each with its trimmed text, box and confidence;
\* the empty input gives the empty output.
C5_Normalizer ==
    elements # Unassigned =>
        /\ Len(elements.returned) = Cardinality(C5_Kept)
        /\ \A k \in 1..Len(elements.returned) :
              LET e == elements.returned[k]
                  w == ocr_data[C5_KthKept(k)]
              IN  /\ e.text = Strip(w.text)
                  /\ e.confidence = w.conf
                  /\ e.bounding_box.x = w.left /\ e.bounding_box.y = w.top
                  /\ e.element_id = k
        /\ \A i \in 1..Len(ocr_data) :
              ocr_data[i].conf <= 30 =>
                 \A k \in 1..Len(elements.returned) : C5_KthKept(k) # i
        /\ ocr_data = <<>> => elements.returned = <<>>

\* C5 witness: a list with a word at confidence 30, a word at confidence 31
\* and an empty detection went through the normalizer, which kept a word
C5_Witness ==
    /\ elements # Unassigned
    /\ \E i \in 1..Len(ocr_data) : ocr_data[i].conf = 30
    /\ \E i \in 1..Len(ocr_data) : ocr_data[i].conf = 31
    /\ \E i \in 1..Len(ocr_data) : Strip(ocr_data[i].text) = <<>>
    /\ Len(elements.returned) = 1

\* C6: in every row returned by group_words_by_rows, the vertical position
\* of every word is within 10 units of the vertical position of the row's
\* first word (first in the emitted, left-to-right order).
C6_RowTolerance ==
    \A r \in 1..Len(rows) :
        \A j \in 1..Len(rows[r]) :
            /\ rows[r][j].y - rows[r][1].y <= 10
            /\ rows[r][1].y - rows[r][j].y <= 10

\* C6 witness: a row whose leftmost word lies lower than another member
C6_Witness ==
    \E r \in 1..Len(rows) :
        \E j \in 1..Len(rows[r]) : rows[r][j].y < rows[r][1].y

C8_TwoPrices ==
    (/\ RunEnded
     /\ vendor_type \in DOMAIN vendor_patterns
     /\ RunWords = TwoPriceInvoice)
    => /\ stage = "Done"
       /\ \E k \in 1..Len(line_items) :
             /\ line_items[k].unit_price = <<"1","0",".","0","0">>
             /\ line_items[k].total_price = <<"3","0",".","0","0">>

\* a row's text contains, ignoring case, one of the header keywords
C9_HasHeaderKeyword(row) ==
    \E kw \in {K_Item, K_Description, K_Qty, K_Price, K_Total, K_PartNo,
               K_Amount} :
        Contains(Lower(Join([i \in 1..Len(row) |-> row[i].text])), Lower(kw))

\* C9: every classified row whose text contains a header keyword (so every
\* row with both "Description" and "Qty") was rejected with None, gave no
\* LineItem, and is not the row at which an error ended the run.
C9_HeaderSuppressed ==
    /\ \A i \in 1..Len(outcomes) :
          C9_HasHeaderKeyword(rows[i]) => outcomes[i] = ReturnsNone
    /\ raised = "re.error" => ~C9_HasHeaderKeyword(rows[Len(outcomes)])
    /\ (\A i \in 1..Len(rows) : C9_HasHeaderKeyword(rows[i])) =>
          /\ raised # "re.error"
          /\ line_items = <<>>
          /\ stage = "Done" => "error" \notin DOMAIN result

\* C9 witness: a finished run with a row of several words that contains
\* both "Description" and "Qty"
C9_Witness ==
    /\ stage = "Done"
    /\ \E i \in 1..Len(rows) :
          /\ Len(rows[i]) >= 2
          /\ Contains(RowText(rows[i]), K_Description)
          /\ Contains(RowText(rows[i]), K_Qty)
          /\ outcomes[i] = ReturnsNone

\* C10: every classified row with fewer than 2 words was rejected with
\* None, gave no LineItem, and is not the row at which an error ended the run.
C10_SparseRowRejected ==
    /\ \A i \in 1..Len(outcomes) :
          Len(rows[i]) < 2 => outcomes[i] = ReturnsNone
    /\ raised = "re.error" => Len(rows[Len(outcomes)]) >= 2
    /\ (\A i \in 1..Len(rows) : Len(rows[i]) < 2) =>
          /\ raised # "re.error"
          /\ line_items = <<>>
          /\ stage = "Done" => "error" \notin DOMAIN result

\* C10 witness: a finished run with a one-word row that is not a header
C10_Witness ==
    /\ stage = "Done"
    /\ \E i \in 1..Len(rows) :
          /\ Len(rows[i]) = 1
          /\ ~C9_HasHeaderKeyword(rows[i])
          /\ outcomes[i] = ReturnsNone


\* the five fields of a LineItem
C11_Fields(item) ==
    <<item.item_number, item.description, item.quantity, item.unit_price,
      item.total_price>>

\* a LineItem with no non-empty field
C11_EmptyItem(item) == \A f \in 1..5 : C11_Fields(item)[f] = <<>>

C12_FieldsFound(item) ==
    Cardinality({f \in 1..5 : C11_Fields(item)[f] # <<>>})

\* C12 (as claimed): every row that is not rejected with None is classified
\* into a LineItem whose confidence, in hundredths, is 20 times the number
\* of its non-empty fields; a field pattern without a match does not abort
\* the classification of the row.
C12_ConfidenceFifths ==
    \A i \in 1..Len(outcomes) :
        outcomes[i] # ReturnsNone =>
            /\ outcomes[i].kind = "item"
            /\ outcomes[i].item.confidence =
                  20 * C12_FieldsFound(outcomes[i].item)

C14_RegionEncloses ==
    (table_region # Unassigned /\ table_region # NoRegion) =>
        /\ table_region.width >= 0
        /\ table_region.height >= 0
        /\ \A i \in 1..Len(RunWords) :
              (/\ table_region.y <= RunWords[i].top
               /\ RunWords[i].top <= table_region.y + table_region.height)
              => /\ table_region.x <= RunWords[i].left
                 /\ RunWords[i].left + RunWords[i].width
                       <= table_region.x + table_region.width
                 /\ RunWords[i].top + RunWords[i].height
                       <= table_region.y + table_region.height

\* C15: the registry always has a generic entry, and the lookup of a
\* vendor_type that is not a key of the registry raises KeyError at once:
\* no region is detected, no row is extracted, and the run does not go on
\* under another vendor.
C15_UnknownVendorFails ==
    [][/\ "generic" \in DOMAIN self_vendor_patterns
       /\ "generic" \in DOMAIN self_vendor_patterns'
       /\ (/\ stage = "Extracting"
           /\ "error" \notin DOMAIN extraction_result
           /\ vendor_type \notin DOMAIN vendor_patterns)
          => /\ raised' = "KeyError"
             /\ vendor_type' = vendor_type
             /\ table_region' = Unassigned
             /\ rows' = <<>> /\ line_items' = <<>>
             /\ result' = Unassigned]_vars

\* C15 witness: the run for a vendor outside the registry ended with
\* KeyError before any region was detected
C15_Witness ==
    /\ raised = "KeyError"
    /\ vendor_type \notin {"acme", "techsupply", "generic"}
    /\ stage = "Extracting"
    /\ table_region = Unassigned
    /\ result = Unassigned

\* C16 (as claimed), for the vendors of the registry: no exception escapes
\* the run; it ends with the success result or with one of the two error
\* results, whatever the rows are.
C16_NoEscape ==
    vendor_type \in DOMAIN vendor_patterns =>
        /\ raised = ""
        /\ RunEnded => /\ stage \in {"Done", "Failed"}
                       /\ result # Unassigned

\* the locals a run has computed so far agree with the run made alone
C17_AsAlone(tr, st, rs, its, rsd, alone) ==
    /\ tr # Unassigned => tr = alone.table_region
    /\ st \in {"RowsGrouped", "Classified"} => rs = alone.rows
    /\ (st = "Classified" \/ rsd # "") =>
          /\ its = alone.line_items
          /\ rsd = alone.raised

C18_FrameOfRun ==
    [][/\ self_vendor_patterns' = self_vendor_patterns
       /\ stage # "Idle" => extraction_result' = extraction_result]_vars

\* C18 witness: a finished run whose table_words were reordered by the sort
\* of group_words_by_rows, with the registry as __init__ left it
C18_Witness ==
    /\ stage = "Done"
    /\ Len(table_words) >= 2
    /\ table_words # FilterTableWords(RunWords, table_region)
    /\ self_vendor_patterns = load_vendor_patterns

\* the row holds the recognized word w
C19_RowHolds(row, w) ==
    \E j \in 1..Len(row) :
        row[j].text = w.text /\ row[j].x = w.left /\ row[j].y = w.top

\* the words whose tops became table_start_y and table_end_y
C19_Anchors ==
    LET patterns == vendor_patterns[vendor_type]
        starts == StartMatches(RunWords, patterns)
        ends == EndMatches(RunWords, patterns)
    IN  (IF starts = {} THEN {} ELSE {RunWords[Min(starts)]})
        \cup (IF ends = {} THEN {} ELSE {RunWords[Min(ends)]})

C20_EndBelowStart ==
    (table_region # Unassigned /\ table_region # NoRegion) =>
        LET patterns == vendor_patterns[vendor_type]
            table_start_y == table_region.y
            below == {i \in 1..Len(RunWords) :
                         /\ RunWords[i].top > table_start_y
                         /\ WordHasKeyword(RunWords[i],
                                           patterns.table_end_keywords)}
        IN  below # {} =>
                table_region.y + table_region.height = RunWords[Min(below)].top

\* C21 (as claimed): when a start anchor was found and no word with a
\* table_end_keyword lies strictly below it, table_end_y is the maximum of
\* top + height over all words, and region.height is that value minus
\* table_start_y.
C21_DefaultEnd ==
    (table_region # Unassigned /\ table_region # NoRegion) =>
        LET patterns == vendor_patterns[vendor_type]
            below == {i \in 1..Len(RunWords) :
                         /\ RunWords[i].top > table_region.y
                         /\ WordHasKeyword(RunWords[i],
                                           patterns.table_end_keywords)}
            bottom == Max({RunWords[i].top + RunWords[i].height :
                              i \in 1..Len(RunWords)})
        IN  below = {} => table_region.height = bottom - table_region.y

\* C22: table_start_y (region.y) is the top of the first word, in the order
\* of the recognizer's arrays, whose non-blank text contains a
\* table_start_keyword of the vendor, ignoring case; there is a region
\* exactly when such a word exists.
C22_FirstStartWord ==
    (table_region # Unassigned) =>
        LET keywords == vendor_patterns[vendor_type].table_start_keywords
        IN  IF table_region = NoRegion
            THEN \A i \in 1..Len(RunWords) :
                    ~WordHasKeyword(RunWords[i], keywords)
            ELSE \E i \in 1..Len(RunWords) :
                    /\ WordHasKeyword(RunWords[i], keywords)
                    /\ \A j \in 1..(i - 1) :
                          ~WordHasKeyword(RunWords[j], keywords)
                    /\ table_region.y = RunWords[i].top

\* C22 witness: the region starts at the first matching word although a
\* word without a start keyword precedes it and a later matching word lies
\* higher on the page
C22_Witness ==
    /\ table_region # Unassigned /\ table_region # NoRegion
    /\ LET keywords == vendor_patterns[vendor_type].table_start_keywords
       IN  \E i, j \in 1..Len(RunWords) :
              /\ 1 < i /\ i < j
              /\ ~WordHasKeyword(RunWords[1], keywords)
              /\ WordHasKeyword(RunWords[i], keywords)
              /\ WordHasKeyword(RunWords[j], keywords)
              /\ RunWords[j].top < RunWords[i].top
              /\ table_region.y = RunWords[i].top

\* the normalized word stream: the words with non-blank text and a
\* confidence above 30, in input order
C23_Normalized(words) ==
    SelectSeq(words, LAMBDA w : Strip(w.text) # <<>> /\ w.conf > 30)

\* C23 (as claimed): the detected region is the one detected on the
\* normalized word stream, so words with confidence 30 or lower have no
\* influence on it.
C23_LowConfidenceIgnored ==
    (table_region # Unassigned) =>
        table_region =
            detect_table_region(C23_Normalized(RunWords), vendor_type)

\* indices of the non-blank words whose top lies in the vertical band of
\* the region
C24_Band ==
    {i \in 1..Len(RunWords) :
        /\ table_region.y <= RunWords[i].top
        /\ RunWords[i].top <= table_region.y + table_region.height
        /\ Strip(RunWords[i].text) # <<>>}

\* C24: region.x is the least left edge and region.x + region.width the
\* greatest right edge (left + width) over exactly the non-blank words whose
\* top lies in [table_start_y, table_end_y]; with one such word the region
\* has that word's left and width.
C24_HorizontalBounds ==
    (table_region # Unassigned /\ table_region # NoRegion) =>
        /\ C24_Band # {}
        /\ \A i \in C24_Band :
              /\ table_region.x <= RunWords[i].left
              /\ RunWords[i].left + RunWords[i].width
                    <= table_region.x + table_region.width
        /\ \E i \in C24_Band : table_region.x = RunWords[i].left
        /\ \E i \in C24_Band :
              table_region.x + table_region.width
                 = RunWords[i].left + RunWords[i].width
        /\ \A i \in C24_Band :
              C24_Band = {i} => /\ table_region.x = RunWords[i].left
                                /\ table_region.width = RunWords[i].width

\* C24 witness: a region with several non-blank words in the band and a
\* blank word in the same band that lies to the right of the region
C24_Witness ==
    /\ table_region # Unassigned /\ table_region # NoRegion
    /\ Cardinality(C24_Band) >= 2
    /\ \E i \in 1..Len(RunWords) :
          /\ Strip(RunWords[i].text) = <<>>
          /\ table_region.y <= RunWords[i].top
          /\ RunWords[i].top <= table_region.y + table_region.height
          /\ RunWords[i].left > table_region.x + table_region.width

\* the run has called group_words_by_rows
C25_Grouped ==
    table_region # Unassigned /\ table_region # NoRegion /\ stage # "RegionDetected"

\* the recognized word qualifies: non-blank text, confidence above 30, left
\* edge and top within the region, bounds included
C25_Qualifies(w) ==
    /\ Strip(w.text) # <<>> /\ w.conf > 30
    /\ w.left >= table_region.x
    /\ w.left <= table_region.x + table_region.width
    /\ w.top >= table_region.y
    /\ w.top <= table_region.y + table_region.height

\* number of recognized words with these values that qualify
C25_QualifyingCopies(d) ==
    Cardinality({i \in 1..Len(RunWords) :
                    /\ C25_Qualifies(RunWords[i])
                    /\ RunWords[i].text = d.text
                    /\ RunWords[i].left = d.x /\ RunWords[i].top = d.y
                    /\ RunWords[i].width = d.width
                    /\ RunWords[i].height = d.height
                    /\ RunWords[i].conf = d.confidence})

\* C25: the words handed to group_words_by_rows are exactly the recognized
\* words that qualify: every word of table_words is a qualifying recognized
\* word, as many times as it qualifies, and none is left out.
C25_FilterExact ==
    C25_Grouped =>
        /\ \A k \in 1..Len(table_words) :
              Cardinality({j \in 1..Len(table_words) :
                              table_words[j] = table_words[k]})
                 = C25_QualifyingCopies(table_words[k])
        /\ Len(table_words) =
              Cardinality({i \in 1..Len(RunWords) : C25_Qualifies(RunWords[i])})

\* C25 witness: a word whose top is exactly region.y + region.height was
\* handed on, and a word inside the region with confidence 30 was not
C25_Witness ==
    /\ C25_Grouped
    /\ \E k \in 1..Len(table_words) :
          table_words[k].y = table_region.y + table_region.height
    /\ \E i \in 1..Len(RunWords) :
          /\ RunWords[i].conf = 30
          /\ Strip(RunWords[i].text) # <<>>
          /\ RunWords[i].left >= table_region.x
          /\ RunWords[i].left <= table_region.x + table_region.width
          /\ RunWords[i].top >= table_region.y
          /\ RunWords[i].top <= table_region.y + table_region.height
          /\ \A k \in 1..Len(table_words) : table_words[k].confidence # 30

\* the vertical position of the row's anchor: its first-added word, which
\* is its topmost one because the words are processed top to bottom
C26_AnchorY(row) == Min({row[j].y : j \in 1..Len(row)})

\* C26: every word of a row lies at most 10 below the row's anchor, and the
\* anchor of the next row lies more than 10 below the anchor of the row
\* before it: a word joins the current row exactly when it is within 10 of
\* the anchor, whatever its distance to the latest member is.
C26_FixedAnchor ==
    /\ \A r \in 1..Len(rows) :
          \A j \in 1..Len(rows[r]) :
              rows[r][j].y - C26_AnchorY(rows[r]) <= 10
    /\ \A r \in 1..(Len(rows) - 1) :
          C26_AnchorY(rows[r + 1]) - C26_AnchorY(rows[r]) > 10

\* C26 witness: a word exactly 10 below the anchor joined the row, and the
\* next word started a new row although it is within 10 of that member
C26_Witness ==
    \E r \in 1..(Len(rows) - 1) :
        \E j \in 1..Len(rows[r]) :
            /\ rows[r][j].y - C26_AnchorY(rows[r]) = 10
            /\ C26_AnchorY(rows[r + 1]) - rows[r][j].y <= 10

\* the text is a pure number or a pure currency amount: an optional "$",
\* digits, and at most one "."
C27_IsAmount(text) ==
    LET t == IF text # <<>> /\ Head(text) = "$" THEN Tail(text) ELSE text
    IN  /\ t # <<>>
        /\ t[1] \in DigitChars
        /\ \A i \in 1..Len(t) : t[i] \in DigitChars \cup {"."}
        /\ Cardinality({i \in 1..Len(t) : t[i] = "."}) <= 1

\* the word belongs in the description
C27_Qualifies(text) == Len(text) > 2 /\ ~C27_IsAmount(text)

\* the description the row should get: its qualifying words in row order,
\* the first 5 of them, joined by single spaces
C27_Description(row) ==
    LET stripped == [i \in 1..Len(row) |-> Strip(row[i].text)]
        qualifying == SelectSeq(stripped, C27_Qualifies)
    IN  Join(SubSeq(qualifying, 1, Min({5, Len(qualifying)})))

\* C27 (as claimed): every row that is not rejected with None is classified
\* into a LineItem whose description is made of the row's words that are
\* neither a number nor a currency amount and are longer than 2 characters.
C27_DescriptionWords ==
    \A i \in 1..Len(outcomes) :
        outcomes[i] # ReturnsNone =>
            /\ outcomes[i].kind = "item"
            /\ outcomes[i].item.description = C27_Description(rows[i])

\* the words of all rows, row after row
RECURSIVE C28_Flatten(_)
C28_Flatten(rws) ==
    IF rws = <<>> THEN <<>> ELSE Head(rws) \o C28_Flatten(Tail(rws))

\* how often the word d occurs in the list
C28_Count(seq, d) == Cardinality({i \in 1..Len(seq) : seq[i] = d})

\* C28: the rows returned by group_words_by_rows partition its input: no
\* row is empty, every word of the input is in the rows exactly as often as
\* it is in the input and nothing else is, so the last open row was
\* emitted; an empty input gives no rows.
C28_RowsPartition ==
    C25_Grouped =>
        LET flat == C28_Flatten(rows)
        IN  /\ \A r \in 1..Len(rows) : rows[r] # <<>>
            /\ Len(flat) = Len(table_words)
            /\ \A k \in 1..Len(table_words) :
                  C28_Count(flat, table_words[k])
                     = C28_Count(table_words, table_words[k])
            /\ table_words = <<>> => rows = <<>>

\* C28 witness: an input with the same word twice and a word further down
\* came out as two rows, the last one holding the lowest word
C28_Witness ==
    /\ C25_Grouped
    /\ Len(rows) = 2
    /\ Len(rows[1]) = 2 /\ rows[1][1] = rows[1][2]
    /\ Len(rows[2]) = 1
    /\ rows[2][1] = table_words[Len(table_words)]

\* item_number, description or quantity is non-empty
C29_AnyOfThree(item) ==
    item.item_number # <<>> \/ item.description # <<>> \/ item.quantity # <<>>

\* the returned LineItems that should be in the output, in row order
RECURSIVE C29_Appended(_)
C29_Appended(outs) ==
    IF outs = <<>> THEN <<>>
    ELSE (IF Head(outs).kind = "item" /\ C29_AnyOfThree(Head(outs).item)
          THEN <<Head(outs).item>> ELSE <<>>)
         \o C29_Appended(Tail(outs))

C30_Currency ==
    <<Rep(Lit("$"), 0, 1), Rep(Set(DigitChars), 1, -1), Lit("."),
      Rep(Set(DigitChars), 2, 2)>>

\* C30 (as claimed): for acme and generic, a row that is not rejected with
\* None and whose text holds exactly one currency amount is classified into
\* a LineItem whose unit_price and total_price are both that amount; in
\* every LineItem unit_price is empty exactly when total_price is.
C30_SamePrice ==
    vendor_type \in {"acme", "generic"} =>
        \A i \in 1..Len(outcomes) :
            LET amounts == ReFindall(C30_Currency, RowText(rows[i]))
            IN  /\ (outcomes[i] # ReturnsNone /\ Len(amounts) = 1) =>
                      /\ outcomes[i].kind = "item"
                      /\ outcomes[i].item.unit_price = RemoveDollar(amounts[1])
                      /\ outcomes[i].item.total_price = RemoveDollar(amounts[1])
                /\ outcomes[i].kind = "item" =>
                      (outcomes[i].item.unit_price = <<>>
                          <=> outcomes[i].item.total_price = <<>>)

====
